---- MODULE Spec2Model ----
(***************************************************************************)
(* jt: a command line tool that fills a weekly Tempo timesheet.            *)
(* The model follows src/src/main.rs (init, fill, select_days_tasks,       *)
(* upload_worklogs, resolve_attributes, submit), src/src/client.rs         *)
(* (JtClient) and src/src/config.rs (write_config).                        *)
(*                                                                         *)
(* Strings that the code inspects character by character (JSON pointers,   *)
(* object keys, attribute values) are sequences of one-character strings.  *)
(* Dates are chrono's num_days_from_ce: day 1 is 0001-01-01, a Monday.     *)
(* Durations are whole minutes.                                            *)
(***************************************************************************)
EXTENDS Integers, Sequences, FiniteSets, TLC

VARIABLES
    pc,         \* position of the running command
    args,       \* CLI flags of fill: dry_run, next, submit, random
    now,        \* local calendar date of chrono::Local::now()
    disk,       \* content of the configuration file: None or Some(config)
    writes,     \* number of times write_config has written the file
    config,     \* fill: the loaded Config; init: the answers gathered so far
    first_day,  \* fill: Monday computed at main.rs:174
    tasks,      \* fill: candidate tasks (issues, then static tasks)
    day,        \* fill: number of days of the week already planned
    today,      \* select_days_tasks: the accumulator of (task, duration)
    work,       \* fill: the week's (day, task, duration) entries
    pos,        \* upload_worklogs: number of entries already processed
    resolved,   \* upload_worklogs: attributes resolved for the last entry
    sent,       \* create-worklog requests that went out on the network
    approvals,  \* submit-for-approval requests that went out on the network
    err         \* the error the command returned, or the panic that ended it

vars == <<pc, args, now, disk, writes, config, first_day, tasks, day, today,
          work, pos, resolved, sent, approvals, err>>

----------------------------------------------------------------------------
(* Option<T> *)
None == <<>>
Some(x) == <<x>>
IsSome(o) == o # <<>>
Unwrap(o) == o[1]

(* Bounds of the model *)
FirstYear == 2019
LastYear == 2022
Step == 240
MaxUnits == 2
MaxPathLen == 4
MaxZeros == 2

(* Program constants *)
DEFAULT_DAILY_TARGET == 8 * 60
NumDays == 5

----------------------------------------------------------------------------
(* chrono: NaiveDate, IsoWeek *)

IsLeap(y) == (y % 4 = 0 /\ y % 100 # 0) \/ y % 400 = 0

DaysInYear(y) == IF IsLeap(y) THEN 366 ELSE 365

\* num_days_from_ce of 31 December of year y - 1
DaysBeforeYear(y) ==
    LET p == y - 1 IN 365 * p + (p \div 4) - (p \div 100) + (p \div 400)

\* NaiveDate::from_yo
DateFromYo(y, o) == DaysBeforeYear(y) + o

DaysBeforeMonth(y, m) ==
    LET cum == <<0, 31, 59, 90, 120, 151, 181, 212, 243, 273, 304, 334>>
    IN  cum[m] + (IF m > 2 /\ IsLeap(y) THEN 1 ELSE 0)

\* NaiveDate::from_ymd
DateFromYmd(y, m, d) == DateFromYo(y, DaysBeforeMonth(y, m) + d)

\* Datelike::weekday, 0 = Monday .. 6 = Sunday
Weekday(d) == (d - 1) % 7

\* Datelike::year
YearOf(d) ==
    CHOOSE y \in (d \div 366)..((d \div 365) + 1) :
        DaysBeforeYear(y) < d /\ d <= DaysBeforeYear(y + 1)

\* Datelike::ordinal
Ordinal(d) == d - DaysBeforeYear(YearOf(d))

\* Datelike::iso_week: the week belongs to the year of its Thursday
IsoWeek(d) ==
    LET thursday == d - Weekday(d) + 3
    IN  [year |-> YearOf(thursday), week |-> ((Ordinal(thursday) - 1) \div 7) + 1]

\* number of ISO weeks of year y: the week of 28 December
WeeksInYear(y) == IsoWeek(DateFromYo(y, DaysInYear(y) - 3)).week

\* NaiveDate::from_isoywd_opt(y, w, wd): None when year y has no week w
FromIsoYwdOpt(y, w, wd) ==
    IF w < 1 \/ w > WeeksInYear(y)
    THEN None
    ELSE LET jan4 == DateFromYo(y, 4)
         IN  Some(jan4 - Weekday(jan4) + 7 * (w - 1) + wd)

\* main.rs:168-175: the week number is taken from now (+ 1 week when next),
\* the year from now.year()
FirstDayOpt(n, next) ==
    LET week == IF next THEN IsoWeek(n + 7) ELSE IsoWeek(n)
    IN  FromIsoYwdOpt(YearOf(n), week.week, 0)

\* first_day.iter_days().take(5)
WeekDays(first) == [i \in 1..NumDays |-> first + (i - 1)]

----------------------------------------------------------------------------
(* Result<T> of anyhow *)
Ok(v) == [ok |-> TRUE, val |-> v, err |-> ""]
Err(e) == [ok |-> FALSE, val |-> <<>>, err |-> e]

(* serde_json::Value. An object's kids are its members [k, v], an array's  *)
(* kids are its elements (k unused).                                       *)
JNull == [t |-> "null", s |-> <<>>, kids |-> <<>>]
JBool == [t |-> "bool", s |-> <<>>, kids |-> <<>>]
JNumber == [t |-> "number", s |-> <<>>, kids |-> <<>>]
JString(s) == [t |-> "string", s |-> s, kids |-> <<>>]
JObject(members) == [t |-> "object", s |-> <<>>, kids |-> members]
JArray(elems) == [t |-> "array", s |-> <<>>, kids |-> elems]
Member(k, v) == [k |-> k, v |-> v]
Elem(v) == [k |-> <<>>, v |-> v]

\* str::split(sep)
RECURSIVE Split(_, _)
Split(s, sep) ==
    IF \A i \in 1..Len(s) : s[i] # sep
    THEN <<s>>
    ELSE LET i == CHOOSE j \in 1..Len(s) :
                      s[j] = sep /\ \A k \in 1..(j - 1) : s[k] # sep
         IN  <<SubSeq(s, 1, i - 1)>> \o Split(SubSeq(s, i + 1, Len(s)), sep)

\* str::replace(pat, rep): non-overlapping matches, left to right
RECURSIVE Replace(_, _, _)
Replace(s, pat, rep) ==
    IF Len(s) < Len(pat) THEN s
    ELSE IF SubSeq(s, 1, Len(pat)) = pat
         THEN rep \o Replace(SubSeq(s, Len(pat) + 1, Len(s)), pat, rep)
         ELSE <<Head(s)>> \o Replace(Tail(s), pat, rep)

\* Variant of Unescape: "~0" is replaced before "~1"
Unescape_TildeFirst(tok) ==
    Replace(Replace(tok, <<"~", "0">>, <<"~">>), <<"~", "1">>, <<"/">>)

\* serde_json pointer token: x.replace("~1", "/").replace("~0", "~")
Unescape(tok) == Replace(Replace(tok, <<"~", "1">>, <<"/">>), <<"~", "0">>, <<"~">>)

Digits == <<"0", "1", "2", "3", "4", "5", "6", "7", "8", "9">>
DigitVal(c) == (CHOOSE i \in 1..Len(Digits) : Digits[i] = c) - 1
IsDigit(c) == \E i \in 1..Len(Digits) : Digits[i] = c

RECURSIVE Decimal(_)
Decimal(s) ==
    IF s = <<>> THEN 0 ELSE 10 * Decimal(SubSeq(s, 1, Len(s) - 1)) + DigitVal(s[Len(s)])

\* serde_json parse_index: no sign, no leading zero, then usize::from_str
ParseIndex(tok) ==
    IF tok = <<>> THEN None
    ELSE IF Head(tok) = "+" \/ (Head(tok) = "0" /\ Len(tok) # 1) THEN None
    ELSE IF \A i \in 1..Len(tok) : IsDigit(tok[i]) THEN Some(Decimal(tok))
    ELSE None

\* one step of Value::pointer: Map::get or slice::get
Lookup(target, token) ==
    IF target.t = "object"
    THEN IF \E i \in 1..Len(target.kids) : target.kids[i].k = token
         THEN Some(target.kids[CHOOSE i \in 1..Len(target.kids) :
                                   target.kids[i].k = token].v)
         ELSE None
    ELSE IF target.t = "array"
    THEN LET ix == ParseIndex(token)
         IN  IF IsSome(ix) /\ Unwrap(ix) < Len(target.kids)
             THEN Some(target.kids[Unwrap(ix) + 1].v)
             ELSE None
    ELSE None

RECURSIVE Walk(_, _)
Walk(target, toks) ==
    IF toks = <<>> THEN Some(target)
    ELSE LET nxt == Lookup(target, Unescape(Head(toks)))
         IN  IF nxt = None THEN None ELSE Walk(Unwrap(nxt), Tail(toks))

\* serde_json::Value::pointer
Pointer(value, pointer) ==
    IF pointer = <<>> THEN Some(value)
    ELSE IF Head(pointer) # "/" THEN None
    ELSE Walk(value, Tail(Split(pointer, "/")))

PathError == "Unable to resolve JSON pointer"
StringError == "JSON pointer does not point to string value"

\* main.rs:314-324: the closure mapped over dynamic_attributes
ResolveOne(fields, attr) ==
    LET pointed == Pointer(JObject(fields), attr.value)
    IN  IF pointed = None THEN Err(PathError)
        ELSE IF Unwrap(pointed).t # "string" THEN Err(StringError)
        ELSE Ok([attr EXCEPT !.value = Unwrap(pointed).s])

\* collect::<Result<Vec<_>>>: the first error in template order, else all values
RECURSIVE CollectResolved(_, _)
CollectResolved(fields, attrs) ==
    IF attrs = <<>> THEN Ok(<<>>)
    ELSE LET one == ResolveOne(fields, Head(attrs))
         IN  IF ~one.ok THEN one
             ELSE LET rest == CollectResolved(fields, Tail(attrs))
                  IN  IF ~rest.ok THEN rest ELSE Ok(<<one.val>> \o rest.val)

\* main.rs:307-328
resolve_attributes(issue, static_attributes, dynamic_attributes) ==
    LET res == CollectResolved(issue.fields, dynamic_attributes)
    IN  IF ~res.ok THEN res ELSE Ok(res.val \o static_attributes)

----------------------------------------------------------------------------
(* config.rs WorkAttribute, main.rs Task, client.rs Issue *)
Attr(key, name, id, value) ==
    [key |-> key, name |-> name, work_attribute_id |-> id, value |-> value]

IssueTask(key, fields) ==
    [kind |-> "issue", key |-> key, fields |-> fields, attributes |-> <<>>]

StaticTask(key, attributes) ==
    [kind |-> "static", key |-> key, fields |-> <<>>, attributes |-> attributes]

SummaryKey == <<"s", "u", "m", "m", "a", "r", "y">>

\* client.rs:72-82 Display for Issue: panics unless fields.summary is a string
IssueDisplayable(issue) ==
    LET summary == Lookup(JObject(issue.fields), SummaryKey)
    IN  IsSome(summary) /\ Unwrap(summary).t = "string"

\* main.rs:32-39 Display for Task
Displayable(task) == task.kind = "static" \/ IssueDisplayable(task)

\* main.rs:182-185
TargetPerDay(cfg) ==
    IF IsSome(cfg.daily_target_time_spent_minutes)
    THEN Unwrap(cfg.daily_target_time_spent_minutes)
    ELSE DEFAULT_DAILY_TARGET

\* main.rs:228-232: the sum of the durations accumulated so far
RECURSIVE SumDurations(_)
SumDurations(entries) ==
    IF entries = <<>> THEN 0 ELSE Head(entries).duration + SumDurations(Tail(entries))

\* Variant of LoopCond: the loop goes on while the sum has not passed the target
LoopCond_Inclusive(entries, target) == SumDurations(entries) <= target

\* main.rs:228-233: the condition of the while loop
LoopCond(entries, target) == SumDurations(entries) < target

\* An entry of duration 0 leaves the sum unchanged, so the loop can push such
\* entries without end. The model follows the first MaxZeros of them; positive
\* durations are never held back, the sum bounds their number.
ZeroEntries(entries) ==
    Cardinality({i \in 1..Len(entries) : entries[i].duration = 0})

Followed(entries, duration) == duration > 0 \/ ZeroEntries(entries) < MaxZeros

MissingDefault == ""
ConfigError == "cannot load configuration"
SearchError == "issue search request failed"
WorklogError == "create worklog request failed"
ApprovalError == "timesheet approval request failed"
NoReviewerError == "No reviewer specified for submission"
HealthError == "health check request failed"
UserKeyError == "user key request failed"
WriteError == "cannot write configuration"
Panic == "panic"

----------------------------------------------------------------------------
(* fill, main.rs:158-217 *)

\* main.rs:165-176: load_config()?, JtClient::new, first_day
FillBegin ==
    /\ pc = "fill"
    /\ IF disk = None
       THEN /\ pc' = "failed"
            /\ err' = Some(ConfigError)
            /\ UNCHANGED <<config, first_day>>
       ELSE /\ config' = Unwrap(disk)
            /\ LET first == FirstDayOpt(now, args.next)
               IN  IF first = None
                   THEN /\ pc' = "panicked"
                        /\ err' = Some(Panic)
                        /\ UNCHANGED first_day
                   ELSE /\ pc' = "get_tasks"
                        /\ first_day' = Unwrap(first)
                        /\ UNCHANGED err
    /\ UNCHANGED <<args, now, disk, writes, tasks, day, today, work, pos,
                   resolved, sent, approvals>>

\* main.rs:178-186: get_tasks()?, the static tasks appended, work = Vec::new()
GetTasks(issueLists) ==
    /\ pc = "get_tasks"
    /\ \/ /\ pc' = "failed"
          /\ err' = Some(SearchError)
          /\ UNCHANGED tasks
       \/ \E issues \in issueLists :
             /\ tasks' = issues \o config.static_tasks
             /\ pc' = "alloc"
             /\ UNCHANGED err
    /\ UNCHANGED <<args, now, disk, writes, config, first_day, day, today, work,
                   pos, resolved, sent, approvals>>

\* main.rs:234-262: one iteration of the while loop of select_days_tasks;
\* durations are the answers the interactive prompt may receive
SelectIterate(durations) ==
    /\ pc = "alloc"
    /\ day < NumDays
    /\ LoopCond(today, TargetPerDay(config))
    /\ IF args.random
       THEN IF config.default_time_spent_minutes = None
            THEN /\ pc' = "failed"
                 /\ err' = Some(MissingDefault)
                 /\ UNCHANGED today
            ELSE IF tasks = <<>>
            THEN /\ pc' = "panicked"
                 /\ err' = Some(Panic)
                 /\ UNCHANGED today
            ELSE \E selected \in 1..Len(tasks) :
                   LET time_spent == Unwrap(config.default_time_spent_minutes)
                   IN  /\ Followed(today, time_spent)
                       /\ today' = Append(today,
                              [task |-> selected, duration |-> time_spent])
                       /\ UNCHANGED <<pc, err>>
       ELSE IF tasks = <<>> \/ \E i \in 1..Len(tasks) : ~Displayable(tasks[i])
            THEN /\ pc' = "panicked"
                 /\ err' = Some(Panic)
                 /\ UNCHANGED today
            ELSE \E selected \in 1..Len(tasks) :
                   \E input \in durations :
                     LET time_spent ==
                             IF IsSome(config.default_time_spent_minutes)
                             THEN Unwrap(config.default_time_spent_minutes)
                             ELSE input
                     IN  /\ Followed(today, time_spent)
                         /\ today' = Append(today,
                                [task |-> selected, duration |-> time_spent])
                         /\ UNCHANGED <<pc, err>>
    /\ UNCHANGED <<args, now, disk, writes, config, first_day, tasks, day, work,
                   pos, resolved, sent, approvals>>

\* Variant of AfterDay: each day is uploaded as soon as it is planned
AfterDay_Interleaved(planned) == "upload"

\* main.rs:187 and 203: the upload starts when the 5 days are planned
AfterDay(planned) == IF planned = NumDays THEN "upload" ELSE "alloc"

\* main.rs:264 and 197-201: select_days_tasks returns, the day's entries are
\* appended to work and the loop over the days goes on
FillDayDone ==
    /\ pc = "alloc"
    /\ day < NumDays
    /\ ~LoopCond(today, TargetPerDay(config))
    /\ work' = work \o [i \in 1..Len(today) |->
                    [day |-> WeekDays(first_day)[day + 1],
                     task |-> today[i].task,
                     duration |-> today[i].duration]]
    /\ today' = <<>>
    /\ day' = day + 1
    /\ pc' = AfterDay(day + 1)
    /\ UNCHANGED <<args, now, disk, writes, config, first_day, tasks, pos,
                   resolved, sent, approvals, err>>

----------------------------------------------------------------------------
(* upload_worklogs, main.rs:280-305, and JtClient::create_worklog *)

\* client.rs:119-134: HashMap::from_iter keeps, for each key, the last
\* attribute that carries it
AttributeMap(attrs) ==
    [k \in {attrs[i].key : i \in 1..Len(attrs)} |->
        attrs[CHOOSE i \in 1..Len(attrs) :
                  /\ attrs[i].key = k
                  /\ \A j \in (i + 1)..Len(attrs) : attrs[j].key # k]]

\* client.rs:140: the map is serialised in the iteration order of the
\* HashMap, which is unspecified: any order of its keys
Serialisations(map) ==
    LET keys == DOMAIN map
        orders == {f \in [1..Cardinality(keys) -> keys] :
                      \A i, j \in 1..Cardinality(keys) : i # j => f[i] # f[j]}
    IN  {[i \in 1..Cardinality(keys) |-> map[f[i]]] : f \in orders}

\* client.rs:129-135: CreateWorklogRequest
CreateWorklogRequest(worker, start, task_id, time_spent, attributes) ==
    [worker |-> worker,
     started |-> start,
     time_spent_seconds |-> time_spent * 60,
     origin_task_id |-> task_id,
     attributes |-> attributes]

\* Variant of CreateWorklogSends: dry_run is not consulted
CreateWorklogSends_Always(dry_run) == TRUE

\* client.rs:143-148: the request is sent unless dry_run
CreateWorklogSends(dry_run) == ~dry_run

\* Variant of OnUploadError: the error is recorded and the loop goes on with
\* the next entry
OnUploadError_Skip(p, e) == [pc |-> "upload", pos |-> p + 1, err |-> Some(e)]

\* main.rs:294 and 299: the ? operator returns the error from upload_worklogs
OnUploadError(p, e) == [pc |-> "failed", pos |-> p, err |-> Some(e)]

\* main.rs:290-301: one iteration of the for loop of upload_worklogs
UploadEntry ==
    /\ pc = "upload"
    /\ pos < Len(work)
    /\ LET entry == work[pos + 1]
           log == tasks[entry.task]
           attributes ==
               IF log.kind = "static"
               THEN Ok(log.attributes)
               ELSE resolve_attributes(log, config.static_attributes,
                                       config.dynamic_attributes)
       IN  /\ resolved' = attributes
           /\ IF ~attributes.ok
              THEN LET after == OnUploadError(pos, attributes.err)
                   IN  /\ pc' = after.pc
                       /\ pos' = after.pos
                       /\ err' = after.err
                       /\ UNCHANGED sent
              ELSE \E wire \in Serialisations(AttributeMap(attributes.val)) :
                     LET payload == CreateWorklogRequest(config.worker, entry.day,
                                        log.key, entry.duration, wire)
                     IN  IF CreateWorklogSends(args.dry_run)
                         THEN /\ sent' = Append(sent, payload)
                              /\ \/ /\ pos' = pos + 1
                                    /\ UNCHANGED <<pc, err>>
                                 \/ LET after == OnUploadError(pos, WorklogError)
                                    IN  /\ pc' = after.pc
                                        /\ pos' = after.pos
                                        /\ err' = after.err
                         ELSE /\ pos' = pos + 1
                              /\ UNCHANGED <<sent, pc, err>>
    /\ UNCHANGED <<args, now, disk, writes, config, first_day, tasks, day, today,
                   work, approvals>>

\* main.rs:302-304 and 212: upload_worklogs returns Ok(()), then auto_submit
UploadFinish ==
    /\ pc = "upload"
    /\ pos = Len(work)
    /\ pc' = IF args.submit THEN "submit" ELSE "done"
    /\ UNCHANGED <<args, now, disk, writes, config, first_day, tasks, day, today,
                   work, pos, resolved, sent, approvals, err>>

----------------------------------------------------------------------------
(* submit, main.rs:330-349, and JtClient::submit_timesheet *)

\* Variant of PeriodStart: the Sunday before the Monday
PeriodStart_Sunday(monday) == monday - 1

\* client.rs:161
PeriodStart(monday) == monday - 2

\* client.rs:162-176: PostApprovalRequest
PostApprovalRequest(worker, reviewer, monday) ==
    [user |-> worker, reviewer |-> reviewer, date_from |-> PeriodStart(monday)]

\* client.rs:183: the request is sent unless dry_run
SubmitSends(dry_run) == ~dry_run

Submit ==
    /\ pc = "submit"
    /\ IF config.reviewer = None
       THEN /\ pc' = "failed"
            /\ err' = Some(NoReviewerError)
            /\ UNCHANGED approvals
       ELSE IF SubmitSends(args.dry_run)
       THEN /\ approvals' = Append(approvals,
                   PostApprovalRequest(config.worker, Unwrap(config.reviewer),
                                       first_day))
            /\ \/ /\ pc' = "done"
                  /\ UNCHANGED err
               \/ /\ pc' = "failed"
                  /\ err' = Some(ApprovalError)
       ELSE /\ pc' = "done"
            /\ UNCHANGED <<approvals, err>>
    /\ UNCHANGED <<args, now, disk, writes, config, first_day, tasks, day, today,
                   work, pos, resolved, sent>>

----------------------------------------------------------------------------
(* select_days_tasks called on its own, main.rs:219-265 *)

\* main.rs:264: Ok(today)
SelectReturn ==
    /\ pc = "alloc"
    /\ ~LoopCond(today, TargetPerDay(config))
    /\ pc' = "returned"
    /\ UNCHANGED <<args, now, disk, writes, config, first_day, tasks, day, today,
                   work, pos, resolved, sent, approvals, err>>

----------------------------------------------------------------------------
(* init, main.rs:86-156, and write_config, config.rs:58-61 *)

\* main.rs:134-143
NewConfig(answers) ==
    [api_endpoint |-> answers.api_endpoint,
     worker |-> Unwrap(answers.worker),
     reviewer |-> answers.reviewer,
     daily_target_time_spent_minutes |-> answers.daily_time_target,
     default_time_spent_minutes |-> None,
     static_tasks |-> <<>>,
     static_attributes |-> <<>>,
     dynamic_attributes |-> <<>>]

NoAnswers ==
    [api_endpoint |-> "", validated |-> FALSE, worker |-> None,
     daily_time_target |-> None, specify_reviewer |-> FALSE, reviewer |-> None,
     reviewer_found |-> FALSE]

\* Variant of AfterHealthCheck: the result of the health check is dropped
AfterHealthCheck_Ignored(ok) == "init_user"

\* main.rs:94: client.health_check().await?
AfterHealthCheck(ok) == IF ok THEN "init_user" ELSE "failed"

\* main.rs:104 and 126: client.get_user_key(..).await?
AfterUserKey(found, continue) == IF found THEN continue ELSE "failed"

\* main.rs:87-96
InitHealthCheck(endpoints) ==
    /\ pc = "init"
    /\ \E endpoint \in endpoints, ok \in BOOLEAN :
         /\ config' = [config EXCEPT !.api_endpoint = endpoint, !.validated = ok]
         /\ pc' = AfterHealthCheck(ok)
         /\ err' = IF ok THEN None ELSE Some(HealthError)
    /\ UNCHANGED <<args, now, disk, writes, first_day, tasks, day, today, work,
                   pos, resolved, sent, approvals>>

\* main.rs:98-106
InitUserKey(keys) ==
    /\ pc = "init_user"
    /\ \E response \in {None} \cup {Some(k) : k \in keys} :
         /\ config' = [config EXCEPT !.worker = response]
         /\ pc' = AfterUserKey(IsSome(response), "init_ask")
         /\ err' = IF IsSome(response) THEN None ELSE Some(UserKeyError)
    /\ UNCHANGED <<args, now, disk, writes, first_day, tasks, day, today, work,
                   pos, resolved, sent, approvals>>

\* main.rs:108-119: the daily target and whether a reviewer is specified
InitAsk(targets) ==
    /\ pc = "init_ask"
    /\ \E target \in targets, specify_reviewer \in BOOLEAN :
         /\ config' = [config EXCEPT !.daily_time_target = Some(target),
                                     !.specify_reviewer = specify_reviewer]
         /\ pc' = IF specify_reviewer THEN "init_reviewer" ELSE "init_write"
    /\ UNCHANGED <<args, now, disk, writes, first_day, tasks, day, today, work,
                   pos, resolved, sent, approvals, err>>

\* main.rs:120-129
InitReviewerKey(keys) ==
    /\ pc = "init_reviewer"
    /\ \E response \in {None} \cup {Some(k) : k \in keys} :
         /\ config' = [config EXCEPT !.reviewer = response,
                                     !.reviewer_found = IsSome(response)]
         /\ pc' = AfterUserKey(IsSome(response), "init_write")
         /\ err' = IF IsSome(response) THEN None ELSE Some(UserKeyError)
    /\ UNCHANGED <<args, now, disk, writes, first_day, tasks, day, today, work,
                   pos, resolved, sent, approvals>>

\* main.rs:134-156 and config.rs:58-61: to_string_pretty may fail before the
\* file is touched; fs::write may fail and leave the file unreadable
InitWrite ==
    /\ pc = "init_write"
    /\ \/ /\ pc' = "failed"
          /\ err' = Some(WriteError)
          /\ UNCHANGED <<disk, writes>>
       \/ /\ writes' = writes + 1
          /\ \/ /\ disk' = Some(NewConfig(config))
                /\ pc' = "done"
                /\ UNCHANGED err
             \/ /\ disk' = None
                /\ pc' = "failed"
                /\ err' = Some(WriteError)
    /\ UNCHANGED <<args, now, config, first_day, tasks, day, today, work, pos,
                   resolved, sent, approvals>>

----------------------------------------------------------------------------
(* Inputs *)

Worker == "jsmith"
Reviewer == "boss"

Account == Attr("account", "Account", 1, <<"/", "a">>)
Team == Attr("team", "Team", 2, <<"x">>)

Summary == Member(SummaryKey, JString(<<"T">>))
IssueOk == IssueTask("JT-1", <<Summary, Member(<<"a">>, JString(<<"A", "B", "C">>))>>)
IssueBad == IssueTask("JT-2", <<Summary, Member(<<"a">>, JNumber)>>)
IssueUntitled == IssueTask("JT-3", <<Member(<<"a">>, JString(<<"A", "B", "C">>))>>)
Meeting == StaticTask("ADMIN-1", <<Team>>)

FileConfig(reviewer, target, default, static_tasks, statics, dynamics) ==
    [api_endpoint |-> "https://jira.example.com/",
     worker |-> Worker,
     reviewer |-> reviewer,
     daily_target_time_spent_minutes |-> target,
     default_time_spent_minutes |-> default,
     static_tasks |-> static_tasks,
     static_attributes |-> statics,
     dynamic_attributes |-> dynamics]

NoFlags == [dry_run |-> FALSE, next |-> FALSE, submit |-> FALSE, random |-> FALSE]
Flags == [dry_run : BOOLEAN, next : BOOLEAN, submit : BOOLEAN, random : BOOLEAN]

\* a Wednesday in the middle of a year, and the Friday 1 January 2021, which
\* lies in week 53 of 2020
FillNows == {DateFromYmd(2024, 6, 12), DateFromYmd(2021, 1, 1)}

FillConfigs ==
    {FileConfig(Some(Reviewer), Some(Step), Some(Step), <<Meeting>>, <<>>, <<Account>>),
     FileConfig(None, None, Some(Step), <<>>, <<>>, <<Account>>),
     FileConfig(Some(Reviewer), Some(Step), None, <<Meeting>>, <<Team>>, <<>>)}

FillIssueLists == {<<>>, <<IssueOk>>, <<IssueBad>>, <<IssueUntitled>>}
FillDurations == {Step}

Endpoints == {"https://jira.example.com/", "https://jira.example.org/"}
UserKeys == {"JIRAUSER1", "JIRAUSER2"}
InitTargets == {DEFAULT_DAILY_TARGET, Step}

----------------------------------------------------------------------------
(* The program: jt init or jt fill, main.rs:69-84 *)

Idle ==
    /\ writes = 0
    /\ first_day = 0
    /\ tasks = <<>>
    /\ day = 0
    /\ today = <<>>
    /\ work = <<>>
    /\ pos = 0
    /\ resolved = Ok(<<>>)
    /\ sent = <<>>
    /\ approvals = <<>>
    /\ err = None

InitFill ==
    /\ pc = "fill"
    /\ args \in Flags
    /\ now \in FillNows
    /\ disk \in {None} \cup {Some(c) : c \in FillConfigs}
    /\ config = None
    /\ Idle

InitInit ==
    /\ pc = "init"
    /\ args = NoFlags
    /\ now \in FillNows
    /\ disk \in {None} \cup {Some(c) : c \in FillConfigs}
    /\ config = NoAnswers
    /\ Idle

Init == InitFill \/ InitInit

Next ==
    \/ FillBegin
    \/ GetTasks(FillIssueLists)
    \/ SelectIterate(FillDurations)
    \/ FillDayDone
    \/ UploadEntry
    \/ UploadFinish
    \/ Submit
    \/ InitHealthCheck(Endpoints)
    \/ InitUserKey(UserKeys)
    \/ InitAsk(InitTargets)
    \/ InitReviewerKey(UserKeys)
    \/ InitWrite

Spec == Init /\ [][Next]_vars

----------------------------------------------------------------------------
(* select_days_tasks on its own: one call, for the Monday of a plain week *)

AllocTargets == {None} \cup {Some(k * Step) : k \in 0..MaxUnits}
AllocDefaults == {None} \cup {Some(k * Step) : k \in 0..MaxUnits}
AllocDurations == {k * Step : k \in 0..MaxUnits}
AllocTaskLists == {<<>>, <<IssueOk>>, <<IssueOk, Meeting>>}

InitAlloc ==
    /\ pc = "alloc"
    /\ \E random \in BOOLEAN : args = [NoFlags EXCEPT !.random = random]
    /\ now = DateFromYmd(2024, 6, 12)
    /\ \E target \in AllocTargets, default \in AllocDefaults :
         config = FileConfig(None, target, default, <<>>, <<>>, <<>>)
    /\ disk = Some(config)
    /\ writes = 0
    /\ first_day = Unwrap(FirstDayOpt(now, FALSE))
    /\ tasks \in AllocTaskLists
    /\ day = 0
    /\ today = <<>>
    /\ work = <<>>
    /\ pos = 0
    /\ resolved = Ok(<<>>)
    /\ sent = <<>>
    /\ approvals = <<>>
    /\ err = None

NextAlloc ==
    \/ SelectIterate(AllocDurations)
    \/ SelectReturn

AllocSpec == InitAlloc /\ [][NextAlloc]_vars

\* The loop of select_days_tasks is sequential code: it takes its next step
\* whenever it has one. A behaviour that stays in "alloc" with MaxZeros entries
\* of duration 0 and no step left stands for the loop that goes on pushing
\* such entries: a positive duration, when one can be supplied, is never held
\* back, so this happens only when every duration supplied is 0.
FairAllocSpec == AllocSpec /\ WF_vars(NextAlloc)

(* C1: for every non-empty candidate list and every positive target,       *)
(* select_days_tasks eventually returns a plan whose durations sum to at    *)
(* least the target, whatever default duration is configured (random or     *)
(* interactive mode) and whatever durations the prompt supplies.            *)
C1_AllocatorReturnsPlan ==
    (/\ tasks # <<>>
     /\ TargetPerDay(config) > 0
     /\ (IsSome(config.default_time_spent_minutes) \/ ~args.random))
    => <>(/\ pc = "returned"
          /\ SumDurations(today) >= TargetPerDay(config))

NoCandidates == "AllocationError::NoCandidates"

(* C2: with an empty candidate list and a positive target, once             *)
(* select_days_tasks has ended it has returned the error NoCandidates (in   *)
(* random mode without a default duration, the missing default may be       *)
(* reported instead): it has neither panicked nor returned a plan.          *)
C2_EmptyCandidatesError ==
    (tasks = <<>> /\ TargetPerDay(config) > 0 /\ pc \in {"failed", "panicked", "returned"})
    => /\ pc = "failed"
       /\ \/ err = Some(NoCandidates)
          \/ /\ args.random
             /\ config.default_time_spent_minutes = None
             /\ err = Some(MissingDefault)

\* the least number of entries of duration d > 0 that sum to at least t > 0
CeilDiv(t, d) == CHOOSE n \in 1..t : (n - 1) * d < t /\ t <= n * d

\* the first k entries of a plan
Prefix(entries, k) == SubSeq(entries, 1, k)

(* C11: in every plan select_days_tasks returns, every proper prefix sums   *)
(* to strictly less than the target; with a default duration d > 0 and a    *)
(* target T > 0 the plan has exactly ceil(T / d) entries; with a target     *)
(* <= 0 the plan is empty.                                                  *)
C11_StopsWhenTargetReached ==
    pc = "returned" =>
        LET target == TargetPerDay(config)
            default == config.default_time_spent_minutes
        IN  /\ \A k \in 0..(Len(today) - 1) :
                   SumDurations(Prefix(today, k)) < target
            /\ (IsSome(default) /\ Unwrap(default) > 0 /\ target > 0)
                   => Len(today) = CeilDiv(target, Unwrap(default))
            /\ target <= 0 => today = <<>>

\* scenario: two tasks, target 480 minutes, default 240 minutes, random mode
C11_Witness ==
    /\ pc = "returned"
    /\ args.random
    /\ Len(tasks) = 2
    /\ TargetPerDay(config) = 2 * Step
    /\ config.default_time_spent_minutes = Some(Step)
    /\ Len(today) = 2
    /\ SumDurations(today) = 2 * Step

----------------------------------------------------------------------------
(* fill on every date of the years FirstYear..LastYear, with and without   *)
(* --next: a dry run in random mode over one issue                          *)

WeekNows == DateFromYmd(FirstYear, 1, 1)..DateFromYmd(LastYear, 12, 31)
WeekConfig == FileConfig(Some(Reviewer), Some(Step), Some(Step), <<>>, <<>>, <<Account>>)
WeekIssueLists == {<<IssueOk>>}

InitWeek ==
    /\ pc = "fill"
    /\ \E next \in BOOLEAN :
         args = [dry_run |-> TRUE, next |-> next, submit |-> TRUE, random |-> TRUE]
    /\ now \in WeekNows
    /\ disk = Some(WeekConfig)
    /\ config = None
    /\ Idle

NextWeek ==
    \/ FillBegin
    \/ GetTasks(WeekIssueLists)
    \/ SelectIterate(FillDurations)
    \/ FillDayDone
    \/ UploadEntry
    \/ UploadFinish
    \/ Submit

WeekSpec == InitWeek /\ [][NextWeek]_vars

\* ISO 8601: a week runs from Monday to Sunday
MondayOfWeekOf(d) == d - Weekday(d)

(* C3: for every date now and every value of next, fill does not abort     *)
(* while computing the week, and the days it plans are exactly the Monday   *)
(* to Friday of the ISO week that contains now (now + 7 days when next),    *)
(* in this order.                                                           *)
C3_PlansIsoWeek ==
    LET monday == MondayOfWeekOf(IF args.next THEN now + 7 ELSE now)
    IN  /\ pc # "panicked"
        /\ pc \in {"alloc", "upload", "submit", "done"} =>
              /\ first_day = monday
              /\ \A i \in 1..Len(work) : work[i].day \in monday..(monday + 4)
              /\ \A i \in 1..(Len(work) - 1) : work[i].day <= work[i + 1].day
              /\ day = NumDays =>
                    {work[i].day : i \in 1..Len(work)} = monday..(monday + 4)

----------------------------------------------------------------------------
(* Properties of the program, checked under Spec *)

\* the entry at position i of the plan resolves (static tasks need no resolution)
Resolves(i) ==
    LET log == tasks[work[i].task]
    IN  \/ log.kind = "static"
        \/ resolve_attributes(log, config.static_attributes,
                              config.dynamic_attributes).ok

ResolutionFailed == err \in {Some(PathError), Some(StringError)}
RequestFailed == err = Some(WorklogError)
UploadFailed == ResolutionFailed \/ RequestFailed
UploadOver == day = NumDays /\ pc \in {"submit", "done", "failed"}
SubmitOver ==
    \/ pc = "done" /\ args.submit
    \/ pc = "failed" /\ err \in {Some(NoReviewerError), Some(ApprovalError)}

(* C4: no create-worklog request and no approval request is issued before  *)
(* select_days_tasks has returned a plan for all 5 days; a run whose        *)
(* allocation failed or panicked has issued no request at all.              *)
C4_PlanThenExecute ==
    /\ (sent # <<>> \/ approvals # <<>>) => (day = NumDays /\ today = <<>>)
    /\ (day < NumDays /\ pc \in {"failed", "panicked"}) =>
          (sent = <<>> /\ approvals = <<>>)

C4_Witness ==
    /\ pc = "failed"
    /\ err = Some(MissingDefault)
    /\ ~args.dry_run
    /\ tasks # <<>>
    /\ day < NumDays

(* C5: in a dry run no create-worklog request is ever sent; the upload     *)
(* still resolves the attributes of every entry: it ends with the error of  *)
(* the first entry that does not resolve, and with success, every entry     *)
(* processed, when all of them resolve.                                     *)
C5_DryRunNoRequest ==
    args.dry_run =>
        /\ sent = <<>>
        /\ UploadOver =>
              IF \A i \in 1..Len(work) : Resolves(i)
              THEN ~UploadFailed /\ pos = Len(work)
              ELSE /\ pc = "failed"
                   /\ ResolutionFailed
                   /\ ~Resolves(pos + 1)
                   /\ \A i \in 1..pos : Resolves(i)

C5_Witness ==
    /\ args.dry_run
    /\ pc = "done"
    /\ pos = Len(work)
    /\ Len(work) >= NumDays
    /\ \E i \in 1..Len(work) : tasks[work[i].task].kind = "issue"

\* the one request the submission step is to issue
ExpectedApproval ==
    [user |-> config.worker, reviewer |-> Unwrap(config.reviewer),
     date_from |-> first_day - 2]

(* C6 as stated: the submission step fails with the missing reviewer       *)
(* error, issuing no request, when no reviewer is configured; otherwise it  *)
(* succeeds having issued exactly one request that names the worker and the *)
(* reviewer, with period start first_day - 2 days.                          *)
C6_SubmitOnceOrNoReviewer ==
    SubmitOver =>
        IF config.reviewer = None
        THEN pc = "failed" /\ err = Some(NoReviewerError) /\ approvals = <<>>
        ELSE pc = "done" /\ approvals = <<ExpectedApproval>>

(* C6 amended: without a reviewer the step fails with the missing reviewer *)
(* error and issues no request; with a reviewer, a dry run issues no        *)
(* request and succeeds, and any other run issues exactly one request that  *)
(* names the worker and the reviewer, with period start first_day - 2 days, *)
(* and succeeds unless that request fails. No approval request is issued    *)
(* before the submission step.                                              *)
C6_SubmitAmended ==
    IF SubmitOver
    THEN IF config.reviewer = None
         THEN pc = "failed" /\ err = Some(NoReviewerError) /\ approvals = <<>>
         ELSE IF args.dry_run
         THEN pc = "done" /\ approvals = <<>>
         ELSE /\ approvals = <<ExpectedApproval>>
              /\ pc = "done" \/ err = Some(ApprovalError)
    ELSE approvals = <<>>

C6_Witness ==
    /\ pc = "done"
    /\ args.submit
    /\ ~args.dry_run
    /\ Len(approvals) = 1

\* the request at position i is the one for the entry at position i of the plan
SentFor(i) ==
    /\ sent[i].worker = config.worker
    /\ sent[i].started = work[i].day
    /\ sent[i].origin_task_id = tasks[work[i].task].key
    /\ sent[i].time_spent_seconds = work[i].duration * 60

\* requests go out in plan order, one per entry, and stop at the first failure
UploadsInOrder ==
    /\ Len(sent) <= Len(work)
    /\ \A i \in 1..Len(sent) : SentFor(i)
    /\ UploadFailed => (pc = "failed" /\ approvals = <<>>)
    /\ RequestFailed => Len(sent) = pos + 1
    /\ (UploadOver /\ ~UploadFailed /\ ~args.dry_run) => Len(sent) = Len(work)

(* C9 as stated: requests are issued in plan order, at most one per entry; *)
(* after the first failure, at entry pos + 1, no later entry and no         *)
(* approval is requested, and every entry before it has been sent once.     *)
C9_FailFastSequential ==
    /\ UploadsInOrder
    /\ pc = "upload" => Len(sent) = pos
    /\ ResolutionFailed => Len(sent) = pos

(* C9 amended: as stated for a run that is not a dry run; a dry run sends   *)
(* no request for any entry, and stops at the first resolution failure all  *)
(* the same.                                                                *)
C9_FailFastAmended ==
    /\ UploadsInOrder
    /\ IF args.dry_run
       THEN sent = <<>>
       ELSE /\ pc = "upload" => Len(sent) = pos
            /\ ResolutionFailed => Len(sent) = pos

C9_Witness ==
    /\ ~args.dry_run
    /\ pc = "failed"
    /\ ResolutionFailed
    /\ pos >= 1
    /\ Len(sent) = pos

(* C10: the configuration file is written at most once, and only by the    *)
(* last step of init, after the health check and the lookup of the worker's *)
(* key (and of the reviewer's key, when a reviewer is specified) have       *)
(* succeeded; a run of init that failed on one of them has written nothing. *)
C10_WriteAfterValidation ==
    /\ [](err \in {Some(HealthError), Some(UserKeyError)} => writes = 0)
    /\ [][(disk' # disk \/ writes' # writes) =>
            /\ pc = "init_write"
            /\ writes = 0 /\ writes' = 1
            /\ config.validated
            /\ IsSome(config.worker)
            /\ config.specify_reviewer => config.reviewer_found]_vars

C10_Witness ==
    /\ pc = "done"
    /\ writes = 1
    /\ config.specify_reviewer
    /\ disk = Some(NewConfig(config))

----------------------------------------------------------------------------
(* upload_worklogs on its own: one call, on a plan of one entry for an     *)
(* issue, over every pointer of at most MaxPathLen characters               *)

Chars == {"/", "~", "a", "0", "1"}
Paths == UNION {[1..n -> Chars] : n \in 0..MaxPathLen}

ResolveFields ==
    {<<>>,
     <<Member(<<"a">>, JString(<<"A", "B", "C">>))>>,
     <<Member(<<"a">>, JNumber), Member(<<"0">>, JString(<<"Z">>))>>,
     <<Member(<<"a">>, JObject(<<Member(<<"a">>, JString(<<"X">>)),
                                 Member(<<>>, JBool)>>))>>,
     <<Member(<<"a">>, JArray(<<Elem(JString(<<"P">>)), Elem(JNull)>>))>>,
     <<Member(<<"/">>, JString(<<"S">>)), Member(<<"~">>, JString(<<"T">>)),
       Member(<<>>, JString(<<"E">>))>>}

ResolveDynamics ==
    {<<>>}
    \cup {<<Attr("account", "Account", 1, p)>> : p \in Paths}
    \cup {<<Account, Attr("billing", "Billing", 4, p)>> : p \in Paths}

ResolveStatics == {<<>>, <<Team>>, <<Attr("account", "Fixed", 3, <<"x">>)>>}

InitResolve ==
    /\ pc = "upload"
    /\ args = [dry_run |-> FALSE, next |-> FALSE, submit |-> FALSE, random |-> TRUE]
    /\ now = DateFromYmd(2024, 6, 12)
    /\ \E statics \in ResolveStatics, dynamics \in ResolveDynamics :
         config = FileConfig(None, Some(Step), Some(Step), <<>>, statics, dynamics)
    /\ disk = Some(config)
    /\ writes = 0
    /\ first_day = Unwrap(FirstDayOpt(now, FALSE))
    /\ \E fields \in ResolveFields : tasks = <<IssueTask("JT-1", fields)>>
    /\ day = NumDays
    /\ today = <<>>
    /\ work = <<[day |-> first_day, task |-> 1, duration |-> Step]>>
    /\ pos = 0
    /\ resolved = Ok(<<>>)
    /\ sent = <<>>
    /\ approvals = <<>>
    /\ err = None

NextResolve ==
    \/ UploadEntry
    \/ UploadFinish

ResolveSpec == InitResolve /\ [][NextResolve]_vars

\* RFC 6901 read from the document's side: every value of the document with
\* the reference tokens (member names, array indices) that lead to it
RECURSIVE RefPaths(_)
RefPaths(value) ==
    {<<<<>>, value>>}
    \cup (IF value.t = "object"
          THEN UNION {{<<<<value.kids[i].k>> \o q[1], q[2]>> :
                          q \in RefPaths(value.kids[i].v)} :
                      i \in 1..Len(value.kids)}
          ELSE IF value.t = "array"
          THEN UNION {{<<<<<<Digits[i]>>>> \o q[1], q[2]>> :
                          q \in RefPaths(value.kids[i].v)} :
                      i \in 1..Len(value.kids)}
          ELSE {})

\* RFC 6901 section 4: in one pass, "~0" stands for "~" and "~1" for "/"
RECURSIVE DecodeToken(_)
DecodeToken(e) ==
    IF e = <<>> THEN <<>>
    ELSE IF Len(e) >= 2 /\ e[1] = "~" /\ e[2] = "0"
    THEN <<"~">> \o DecodeToken(SubSeq(e, 3, Len(e)))
    ELSE IF Len(e) >= 2 /\ e[1] = "~" /\ e[2] = "1"
    THEN <<"/">> \o DecodeToken(SubSeq(e, 3, Len(e)))
    ELSE <<Head(e)>> \o DecodeToken(Tail(e))

\* the pointer p is "/" e1 "/" e2 ..., where each ei decodes to the token toks[i]
RECURSIVE Matches(_, _)
Matches(p, toks) ==
    IF toks = <<>> THEN p = <<>>
    ELSE /\ p # <<>>
         /\ Head(p) = "/"
         /\ \E n \in 1..Len(p) :
              LET e == SubSeq(p, 2, n)
              IN  /\ \A i \in 1..Len(e) : e[i] # "/"
                  /\ DecodeToken(e) = Head(toks)
                  /\ Matches(SubSeq(p, n + 1, Len(p)), Tail(toks))

\* the value the pointer p designates in the fields of an issue, if any
Designated(fields, p) ==
    LET hits == {q \in RefPaths(JObject(fields)) : Matches(p, q[1])}
    IN  IF hits = {} THEN None ELSE Some((CHOOSE q \in hits : TRUE)[2])

\* the call of upload_worklogs has processed its entry
Processed == pos = 1 \/ pc = "failed"

(* C7: the attributes resolve_attributes returns for an issue are the      *)
(* dynamic templates, resolved, in template order, followed by the static   *)
(* templates verbatim in template order, and the create-worklog request     *)
(* carries exactly this sequence, also when a dynamic and a static template *)
(* share a key.                                                             *)
C7_AttributeOrderKept ==
    LET dynamics == config.dynamic_attributes
        statics == config.static_attributes
    IN  /\ (Processed /\ resolved.ok) =>
              /\ Len(resolved.val) = Len(dynamics) + Len(statics)
              /\ \A i \in 1..Len(dynamics) :
                    resolved.val[i].key = dynamics[i].key
              /\ \A i \in 1..Len(statics) :
                    resolved.val[Len(dynamics) + i] = statics[i]
        /\ sent # <<>> => sent[1].attributes = resolved.val

(* C8: resolve_attributes never panics. It returns the path error for the  *)
(* first dynamic template whose pointer designates no value in the fields,  *)
(* the string error for the first one whose pointer designates a value that *)
(* is not a string, and otherwise, for every dynamic template, the template *)
(* with its value replaced by the designated string (key, name and id       *)
(* copied).                                                                 *)
C8_ResolveErrorsAreValues ==
    LET dynamics == config.dynamic_attributes
        found(i) == Designated(tasks[1].fields, dynamics[i].value)
        good(i) == IsSome(found(i)) /\ Unwrap(found(i)).t = "string"
    IN  /\ pc # "panicked"
        /\ Processed =>
              IF \A i \in 1..Len(dynamics) : good(i)
              THEN /\ resolved.ok
                   /\ Len(resolved.val) >= Len(dynamics)
                   /\ \A i \in 1..Len(dynamics) :
                         resolved.val[i] =
                             Attr(dynamics[i].key, dynamics[i].name,
                                  dynamics[i].work_attribute_id,
                                  Unwrap(found(i)).s)
              ELSE LET k == CHOOSE i \in 1..Len(dynamics) :
                                 ~good(i) /\ \A j \in 1..(i - 1) : good(j)
                   IN  /\ ~resolved.ok
                       /\ resolved.err =
                              IF found(k) = None THEN PathError ELSE StringError
                       /\ pc = "failed"
                       /\ err = Some(resolved.err)
                       /\ sent = <<>>

C8_Witness ==
    /\ pc = "failed"
    /\ err = Some(StringError)
    /\ Len(config.dynamic_attributes) = 2
    /\ Len(config.dynamic_attributes[2].value) > 1

====
